---- MODULE Spec2Model ----
(***************************************************************************)
(* A model of src/app.py: the live share-market dashboard.                 *)
(*                                                                         *)
(*  - the indicator engine, calculate_technical_indicators (pure);         *)
(*  - the cached gateway call get_live_stock_data (st.cache_data, ttl=30); *)
(*  - one run of the script (a refresh cycle) and what it does to          *)
(*    st.session_state.price_history and st.session_state.last_update.     *)
(*                                                                         *)
(* Numbers are exact rationals extended with NaN and the infinities, the   *)
(* values a pandas float can take; rounding of binary floats is not        *)
(* modelled.  Time is in seconds.                                          *)
(***************************************************************************)
EXTENDS Integers, Sequences, FiniteSets, TLC

VARIABLES
    last_update,        \* st.session_state.last_update
    price_history,      \* st.session_state.price_history
    cache,              \* st.cache_data store of get_live_stock_data
    now,                \* the wall clock, datetime.now()
    data,               \* the OHLCV series of the last call / run
    additional_metrics, \* the Indicator Set of the last call / run
    pc,                 \* where the last run ended
    run,                \* the widgets' values and the locals of the last run
    appended,           \* history: every sample ever appended, in order
    faults              \* history: the runs in which the gateway deviated

vars == <<last_update, price_history, cache, now, data, additional_metrics, pc, run,
          appended, faults>>

----------------------------------------------------------------------------
(* Program constants                                                        *)

MaShort == 20
MaLong == 50
RsiWindow == 14
YearBars == 252
HistoryCap == 100
CacheTTL == 30
SliderMin == 10
SliderMax == 300
SliderDefault == 30
RsiFallback == 50

(* Bounds of the model                                                      *)

MaxBars == 254      \* longest series the engine is applied to
MaxCycles == 102    \* runs of the script in the buffer specification
MaxFaults == 1      \* runs of those that deviate from the normal outcome
MaxRuns == 3        \* runs of the script in the cache specification

----------------------------------------------------------------------------
(* pandas floats: <<n, d>> with d > 0 in lowest terms is n/d;              *)
(* <<0,0>> is NaN, <<1,0>> is +inf, <<-1,0>> is -inf.                      *)

NaN == <<0, 0>>

Abs(x) == IF x < 0 THEN -x ELSE x
Sign(x) == IF x > 0 THEN 1 ELSE IF x < 0 THEN -1 ELSE 0

RECURSIVE GCD(_, _)
GCD(a, b) == IF b = 0 THEN a ELSE GCD(b, a % b)

Norm(n, d) ==
    IF d = 0 THEN <<Sign(n), 0>>
    ELSE LET g == GCD(Abs(n), Abs(d))
             s == Sign(d)
         IN  <<(s * n) \div g, (s * d) \div g>>

F(x) == <<x, 1>>
IsNaN(a) == a = NaN
IsFinite(a) == a[2] # 0

FNeg(a) == <<-a[1], a[2]>>

FAdd(a, b) ==
    IF IsNaN(a) \/ IsNaN(b) THEN NaN
    ELSE IF IsFinite(a) /\ IsFinite(b) THEN Norm(a[1] * b[2] + b[1] * a[2], a[2] * b[2])
    ELSE IF IsFinite(a) THEN b
    ELSE IF IsFinite(b) THEN a
    ELSE IF a = b THEN a ELSE NaN

FSub(a, b) == FAdd(a, FNeg(b))

\* IEEE division: x/0 is an infinity of x's sign, 0/0 and inf/inf are NaN.
FDiv(a, b) ==
    IF IsNaN(a) \/ IsNaN(b) THEN NaN
    ELSE IF IsFinite(a) /\ IsFinite(b) THEN Norm(a[1] * b[2], a[2] * b[1])
    ELSE IF IsFinite(a) THEN F(0)
    ELSE IF IsFinite(b) THEN <<a[1] * (IF b[1] < 0 THEN -1 ELSE 1), 0>>
    ELSE NaN

\* Comparisons with NaN are false.
FLeq(a, b) == ~IsNaN(a) /\ ~IsNaN(b) /\ a[1] * b[2] <= b[1] * a[2]
FLt(a, b) == ~IsNaN(a) /\ ~IsNaN(b) /\ a[1] * b[2] < b[1] * a[2]

----------------------------------------------------------------------------
(* pandas Series operations used by the engine                              *)

Column(d, c) == [i \in 1..Len(d) |-> F(d[i][c])]

\* Series.diff(): the first element has no predecessor and is NaN.
Diff(s) == [i \in 1..Len(s) |-> IF i = 1 THEN NaN ELSE FSub(s[i], s[i - 1])]

\* delta.where(delta > 0, 0) and delta.where(delta < 0, 0)
WherePositive(s) == [i \in 1..Len(s) |-> IF FLt(F(0), s[i]) THEN s[i] ELSE F(0)]
WhereNegative(s) == [i \in 1..Len(s) |-> IF FLt(s[i], F(0)) THEN s[i] ELSE F(0)]
Negated(s) == [i \in 1..Len(s) |-> FNeg(s[i])]

\* sum(), max() and min() of s[a..b], by halves to keep the evaluation shallow
RECURSIVE FSumOf(_, _, _)
FSumOf(s, a, b) ==
    IF a > b THEN F(0)
    ELSE IF a = b THEN s[a]
    ELSE LET mid == (a + b) \div 2 IN FAdd(FSumOf(s, a, mid), FSumOf(s, mid + 1, b))
FSum(s) == FSumOf(s, 1, Len(s))

RECURSIVE FMaxOf(_, _, _)
FMaxOf(s, a, b) ==
    IF a = b THEN s[a]
    ELSE LET mid == (a + b) \div 2
             l == FMaxOf(s, a, mid)
             r == FMaxOf(s, mid + 1, b)
         IN  IF FLeq(l, r) THEN r ELSE l
FMax(s) == FMaxOf(s, 1, Len(s))

RECURSIVE FMinOf(_, _, _)
FMinOf(s, a, b) ==
    IF a = b THEN s[a]
    ELSE LET mid == (a + b) \div 2
             l == FMinOf(s, a, mid)
             r == FMinOf(s, mid + 1, b)
         IN  IF FLeq(r, l) THEN r ELSE l
FMin(s) == FMinOf(s, 1, Len(s))

Mean(s) == FDiv(FSum(s), F(Len(s)))

\* the aggregations applied to a window
Aggregate(agg, s) ==
    IF agg = "mean" THEN Mean(s) ELSE IF agg = "max" THEN FMax(s) ELSE FMin(s)

\* s.rolling(window=w).agg().iloc[i]: NaN until the window is complete.
RollingAt(s, w, agg, i) ==
    IF i < w THEN NaN ELSE Aggregate(agg, SubSeq(s, i - w + 1, i))

\* s.rolling(window=w).agg().iloc[-1]
RollingLast(s, w, agg) == RollingAt(s, w, agg, Len(s))

----------------------------------------------------------------------------
(* calculate_technical_indicators                                           *)

EmptyMap == [k \in {} |-> NaN]
Put(m, k, v) == [x \in (DOMAIN m) \cup {k} |-> IF x = k THEN v ELSE m[x]]
Has(m, k) == k \in DOMAIN m

\* data['Close'].rolling(window=w).mean().iloc[-1]
MovingAverage_Short(d, w) == RollingLast(Column(d, "Close"), w - 1, "mean")
MovingAverage(d, w) == RollingLast(Column(d, "Close"), w, "mean")

\* delta = data['Close'].diff()
Delta_FromFirst(d) == LET c == Column(d, "Close")
                      IN  [i \in 1..Len(c) |-> FSub(c[i], c[1])]
Delta(d) == Diff(Column(d, "Close"))

\* (delta.where(delta > 0, 0)).rolling(window=14).mean(), last value
AvgGain(d) == RollingLast(WherePositive(Delta(d)), RsiWindow, "mean")

\* (-delta.where(delta < 0, 0)).rolling(window=14).mean(), last value
AvgLoss(d) == RollingLast(Negated(WhereNegative(Delta(d))), RsiWindow, "mean")

\* 100 - (100 / (1 + rs.iloc[-1])) if not pd.isna(rs.iloc[-1]) else 50
RsiValue_Textbook(rs) ==
    IF ~IsNaN(rs) THEN FSub(F(100), FDiv(F(100), FAdd(F(1), rs))) ELSE F(100)
RsiValue_Unguarded(rs) == FSub(F(100), FDiv(F(100), FAdd(F(1), rs)))
RsiValue(rs) ==
    IF ~IsNaN(rs) THEN FSub(F(100), FDiv(F(100), FAdd(F(1), rs))) ELSE F(RsiFallback)

\* rs = gain / loss; indicators['rsi'] = ...
Rsi(d) == RsiValue(FDiv(AvgGain(d), AvgLoss(d)))

\* the 52-week branches, lines 193-198
Week52High_Whole(d) == FMax(Column(d, "High"))
Week52High_First(d) ==
    IF Len(d) >= YearBars
    THEN RollingAt(Column(d, "High"), YearBars, "max", 1)
    ELSE FMax(Column(d, "High"))
Week52High(d) ==
    IF Len(d) >= YearBars
    THEN RollingLast(Column(d, "High"), YearBars, "max")
    ELSE FMax(Column(d, "High"))

Week52Low(d) ==
    IF Len(d) >= YearBars
    THEN RollingLast(Column(d, "Low"), YearBars, "min")
    ELSE FMin(Column(d, "Low"))

calculate_technical_indicators(d) ==
    IF Len(d) > 0
    THEN LET i1 == IF Len(d) >= MaShort
                   THEN Put(EmptyMap, "ma_20", MovingAverage(d, MaShort)) ELSE EmptyMap
             i2 == IF Len(d) >= MaLong
                   THEN Put(i1, "ma_50", MovingAverage(d, MaLong)) ELSE i1
             i3 == IF Len(d) >= RsiWindow
                   THEN Put(i2, "rsi", Rsi(d)) ELSE i2
             i4 == Put(i3, "52_week_high", Week52High(d))
         IN  Put(i4, "52_week_low", Week52Low(d))
    ELSE EmptyMap

----------------------------------------------------------------------------
(* The series the engine is applied to: waves that rise for `up` bars and  *)
(* fall for `down` bars by `step` a bar, starting at `base`; every bar's   *)
(* high is close + spread and its low is close - spread (a negative spread *)
(* is a bar whose low lies above its high).                                *)

Bar(c, spread) ==
    [Open |-> c, High |-> c + spread, Low |-> c - spread, Close |-> c, Volume |-> 1000]

WaveClose(base, up, down, i) ==
    LET k == i - 1
        p == up + down
    IN  IF p = 0 THEN base
        ELSE LET q == k \div p
                 r == k % p
             IN  base + q * (up - down) + (IF r <= up THEN r ELSE up - (r - up))

Wave(n, base, up, down, spread) ==
    [i \in 1..n |-> Bar(WaveClose(base, up, down, i), spread)]

Shapes == {<<0, 0>>, <<1, 0>>, <<0, 1>>, <<10, 3>>, <<20, 3>>, <<3, 20>>}
Bases == {10, 300}
Spreads == {-1, 0, 1}

SeriesFamily(longest) ==
    {s \in {Wave(n, b, sh[1], sh[2], sp) :
                n \in 0..longest, b \in Bases, sh \in Shapes, sp \in Spreads} :
        \A i \in 1..Len(s) : s[i].Low > 0 /\ s[i].High > 0}

----------------------------------------------------------------------------------------------------------------------------------------------
(* The gateway: what yfinance answers to a history() call                   *)

Raises(msg) == [raises |-> TRUE, msg |-> msg, series |-> <<>>]
Answers(series) == [raises |-> FALSE, msg |-> "", series |-> series]

NoneStr == "<None>"
Truthy(str) == str # NoneStr /\ str # ""

\* the body of get_live_stock_data, lines 205-215
get_live_stock_data(feed) ==
    IF feed.raises
    THEN [data_none |-> TRUE, data |-> <<>>, metrics |-> EmptyMap, error |-> feed.msg]
    ELSE [data_none |-> FALSE, data |-> feed.series,
          metrics |-> calculate_technical_indicators(feed.series), error |-> NoneStr]

\* @st.cache_data(ttl=30): an entry is served while it is younger than the ttl
CacheFresh_Inclusive(c, key, t) == key \in DOMAIN c /\ t - c[key].at <= CacheTTL
CacheFresh(c, key, t) == key \in DOMAIN c /\ t - c[key].at < CacheTTL

\* get_realtime_price, lines 218-226
NoPrice == [none |-> TRUE, price |-> 0]
Price(p) == [none |-> FALSE, price |-> p]
get_realtime_price(minute) ==
    IF minute.raises THEN NoPrice
    ELSE IF minute.series # <<>> THEN Price(minute.series[Len(minute.series)].Close)
    ELSE NoPrice

\* `if current_price:`, line 249
PriceTruthy_NotNone(q) == ~q.none
PriceTruthy(q) == ~q.none /\ q.price # 0

\* lines 256-257
KeepLast_Head(h) == IF Len(h) > HistoryCap THEN SubSeq(h, 1, HistoryCap) ELSE h
KeepLast(h) ==
    IF Len(h) > HistoryCap THEN SubSeq(h, Len(h) - HistoryCap + 1, Len(h)) ELSE h

\* the branch a run takes, lines 245, 247, 431
Branch_EmptyAccepted(r) ==
    IF Truthy(r.error) THEN "error"
    ELSE IF ~r.data_none THEN "data"
    ELSE "nodata"
Branch(r) ==
    IF Truthy(r.error) THEN "error"
    ELSE IF ~r.data_none /\ r.data # <<>> THEN "data"
    ELSE "nodata"

\* refresh_interval, lines 104-113
RefreshInterval(auto, slider) == IF auto THEN slider ELSE SliderDefault

----------------------------------------------------------------------------
(* One run of the script for a selected symbol, lines 229-441: `elapsed`   *)
(* seconds after the previous one, with the widgets' values, the           *)
(* gateway's answers to the two history() calls, and whether rendering     *)
(* (lines 260-427) raises.                                                 *)

RefreshCycle(trigger, elapsed, auto, slider, selection, feed, minute, renderRaises) ==
    LET current_time == now + elapsed
        hit == CacheFresh(cache, selection, current_time)
        entry == IF hit THEN cache[selection]
                 ELSE [at |-> current_time, cycle |-> run.cycles + 1,
                       value |-> get_live_stock_data(feed)]
        r == entry.value
        current_price == get_realtime_price(minute)
        branch == Branch(r)
        sample == [time |-> current_time, price |-> current_price.price]
        appends == branch = "data" /\ PriceTruthy(current_price)
    IN  /\ now' = current_time
        /\ cache' = [k \in (DOMAIN cache) \cup {selection} |->
                        IF k = selection THEN entry ELSE cache[k]]
        /\ data' = r.data
        /\ additional_metrics' = r.metrics
        /\ price_history' = IF appends THEN KeepLast(Append(price_history, sample))
                            ELSE price_history
        /\ appended' = IF appends THEN Append(appended, sample) ELSE appended
        /\ last_update' = IF branch = "data" /\ ~renderRaises THEN current_time
                          ELSE last_update
        /\ pc' = IF branch = "data" THEN (IF renderRaises THEN "except" ELSE "rendered")
                 ELSE branch
        /\ run' = [cycles |-> run.cycles + 1,
                   auto_refresh |-> auto,
                   refresh_interval |-> RefreshInterval(auto, slider),
                   selection |-> selection,
                   trigger |-> trigger,
                   elapsed |-> elapsed,
                   computed_in |-> entry.cycle,
                   computed_at |-> entry.at,
                   error |-> r.error,
                   data_none |-> r.data_none,
                   current_price |-> current_price]

\* the state of a new session, lines 79-84, with the widgets' defaults
FirstRun ==
    [cycles |-> 0, auto_refresh |-> TRUE, refresh_interval |-> SliderDefault,
     selection |-> <<"AAPL", "1mo">>, trigger |-> "none", elapsed |-> 0,
     computed_in |-> 0, computed_at |-> 0, error |-> NoneStr, data_none |-> TRUE,
     current_price |-> NoPrice]

SessionInit ==
    /\ last_update = 0
    /\ price_history = <<>>
    /\ appended = <<>>
    /\ cache = EmptyMap
    /\ now = 0
    /\ data = <<>>
    /\ additional_metrics = EmptyMap
    /\ pc = "start"
    /\ run = FirstRun
    /\ faults = 0

----------------------------------------------------------------------------
(* Specification of the runs of one session: the user reruns the script    *)
(* (a widget change, "Refresh Now") or the auto-refresh does (lines        *)
(* 439-441), a few runs.                                                   *)

SeriesA == <<Bar(5, 1)>>
SeriesB == <<Bar(5, 1), Bar(7, 1)>>
Minute == Answers(<<Bar(5, 1)>>)

Selections == {<<"AAPL", "1mo">>, <<"MSFT", "1d">>}
Feeds == {Raises("timeout"), Answers(<<>>), Answers(SeriesA), Answers(SeriesB)}
SliderStops == {SliderMin, SliderDefault, SliderMax}
UserDelays == {0, 40}

Init == SessionInit

\* a rerun by the user: any widget may have changed
UserRerun ==
    /\ run.cycles < MaxRuns
    /\ \E elapsed \in UserDelays, auto \in BOOLEAN, slider \in SliderStops,
          selection \in Selections, feed \in Feeds :
          /\ ~auto => slider = SliderDefault
          /\ RefreshCycle("user", elapsed, auto, slider, selection, feed, Minute, FALSE)
    /\ UNCHANGED faults

\* time.sleep(refresh_interval); st.rerun(): nothing changed but the time
AutoRerun ==
    /\ run.cycles < MaxRuns
    /\ pc \notin {"start", "welcome"}
    /\ run.auto_refresh
    /\ \E feed \in Feeds :
          RefreshCycle("auto", run.refresh_interval, TRUE, run.refresh_interval,
                       run.selection, feed, Minute, FALSE)
    /\ UNCHANGED faults

\* 'Custom' with no symbol typed: the welcome branch, lines 443-455
WelcomeRun ==
    /\ run.cycles < MaxRuns
    /\ now' = now + 10
    /\ pc' = "welcome"
    /\ run' = [run EXCEPT !.cycles = @ + 1, !.trigger = "user", !.elapsed = 10]
    /\ UNCHANGED <<last_update, price_history, appended, cache, data, additional_metrics,
                   faults>>

Next == UserRerun \/ AutoRerun \/ WelcomeRun

Spec == Init /\ [][Next]_vars

----------------------------------------------------------------------------
(* Specification of a long session left alone: the default symbol, the     *)
(* auto-refresh at its default 30 s, and a gateway that answers normally   *)
(* but for a few runs.                                                     *)

Normal == [feed |-> Answers(SeriesA), minute |-> Minute, renderRaises |-> FALSE]

Faulty ==
    {[Normal EXCEPT !.feed = f] : f \in {Raises("timeout"), Raises(""), Answers(<<>>)}}
    \cup {[Normal EXCEPT !.minute = m] : m \in {Raises("timeout"), Answers(<<Bar(0, 0)>>)}}
    \cup {[Normal EXCEPT !.renderRaises = TRUE]}

BufferCycle(in) ==
    RefreshCycle(IF pc = "start" THEN "user" ELSE "auto", SliderDefault, TRUE,
                 SliderDefault, FirstRun.selection, in.feed, in.minute, in.renderRaises)

NormalCycle ==
    /\ run.cycles < MaxCycles
    /\ BufferCycle(Normal)
    /\ UNCHANGED faults

FaultyCycle ==
    /\ run.cycles < MaxCycles
    /\ faults < MaxFaults
    /\ \E in \in Faulty : BufferCycle(in)
    /\ faults' = faults + 1

BufferNext == NormalCycle \/ FaultyCycle

SpecBuffer == Init /\ [][BufferNext]_vars

----------------------------------------------------------------------------
(* Specification of the engine alone: a series is drawn, then the engine   *)
(* is applied to it.                                                       *)

EngineInit ==
    /\ data \in SeriesFamily(MaxBars)
    /\ additional_metrics = EmptyMap
    /\ pc = "start"
    /\ last_update = 0
    /\ price_history = <<>>
    /\ appended = <<>>
    /\ cache = EmptyMap
    /\ now = 0
    /\ run = FirstRun
    /\ faults = 0

Calculate ==
    /\ pc = "start"
    /\ additional_metrics' = calculate_technical_indicators(data)
    /\ pc' = "calculated"
    /\ UNCHANGED <<last_update, price_history, appended, cache, now, data, run, faults>>

EngineNext == Calculate

SpecEngine == EngineInit /\ [][EngineNext]_vars

----------------------------------------------------------------------------
(* Reference notions the properties are stated with, on the integer bars   *)

Closes(d) == [i \in 1..Len(d) |-> d[i].Close]

RECURSIVE SumFromTo(_, _, _)
SumFromTo(c, a, b) ==
    IF a > b THEN 0
    ELSE IF a = b THEN c[a]
    ELSE LET mid == (a + b) \div 2 IN SumFromTo(c, a, mid) + SumFromTo(c, mid + 1, b)

SetMax(S) == CHOOSE m \in S : \A x \in S : x <= m
SetMin(S) == CHOOSE m \in S : \A x \in S : m <= x

\* first bar of the window the 52-week figures are taken over
WindowStart(d) == IF Len(d) >= 252 THEN Len(d) - 251 ELSE 1

\* sums of the gains and of the losses over the bar-to-bar changes that
\* end at one of the last 14 bars (the first bar has no change)
TrailingChanges(d) == {i \in 2..Len(d) : i > Len(d) - 14}
RECURSIVE SumOver(_, _)
SumOver(g, S) == IF S = {} THEN 0
                 ELSE LET i == CHOOSE x \in S : TRUE IN g[i] + SumOver(g, S \ {i})
GainAt(d) == [i \in 2..Len(d) |->
                 IF d[i].Close > d[i - 1].Close THEN d[i].Close - d[i - 1].Close ELSE 0]
LossAt(d) == [i \in 2..Len(d) |->
                 IF d[i].Close < d[i - 1].Close THEN d[i - 1].Close - d[i].Close ELSE 0]
TrailingGain(d) == SumOver(GainAt(d), TrailingChanges(d))
TrailingLoss(d) == SumOver(LossAt(d), TrailingChanges(d))

Calculated == pc = "calculated"

\* C1 as stated: fewer than 14 bars give no 'rsi'; with at least 14 bars and a
\* zero trailing-14 average loss the 'rsi' is 50, whatever the average gain.
C1_RsiFiftyOnZeroLoss ==
    Calculated =>
        /\ Len(data) < 14 => ~Has(additional_metrics, "rsi")
        /\ (Len(data) >= 14 /\ TrailingLoss(data) = 0) =>
               (Has(additional_metrics, "rsi") /\ additional_metrics["rsi"] = F(50))

\* C1 amended: fewer than 14 bars give no 'rsi'; with at least 14 bars and a
\* zero trailing-14 average loss the 'rsi' is 50 when the average gain is zero
\* too, and 100 when the average gain is positive.
C1_RsiOnZeroLoss ==
    Calculated =>
        /\ Len(data) < 14 => ~Has(additional_metrics, "rsi")
        /\ (Len(data) >= 14 /\ TrailingLoss(data) = 0) =>
               /\ Has(additional_metrics, "rsi")
               /\ TrailingGain(data) = 0 => additional_metrics["rsi"] = F(50)
               /\ TrailingGain(data) > 0 => additional_metrics["rsi"] = F(100)

\* a series with an earlier loss whose last 14 bars only gain has been rated
C1_Witness ==
    /\ Calculated
    /\ Len(data) > 14
    /\ TrailingLoss(data) = 0
    /\ TrailingGain(data) > 0
    /\ \E i \in 2..Len(data) : data[i].Close < data[i - 1].Close

\* C2: for n in {20, 50}, ma_n is absent below n bars, and with at least n
\* bars it is present and is the arithmetic mean of the last n closes.
C2_MovingAverages ==
    Calculated =>
        \A w \in {20, 50} :
            LET key == IF w = 20 THEN "ma_20" ELSE "ma_50"
                n == Len(data)
            IN  /\ n < w => ~Has(additional_metrics, key)
                /\ n >= w =>
                       /\ Has(additional_metrics, key)
                       /\ additional_metrics[key][2] > 0
                       /\ additional_metrics[key][1] * w =
                              additional_metrics[key][2] * SumFromTo(Closes(data), n - w + 1, n)

\* both averages of a series that is not flat have been computed
C2_Witness ==
    /\ Calculated
    /\ Len(data) > 50
    /\ Has(additional_metrics, "ma_20")
    /\ Has(additional_metrics, "ma_50")
    /\ additional_metrics["ma_20"] # additional_metrics["ma_50"]
    /\ additional_metrics["ma_20"] # F(data[Len(data)].Close)

\* C3: 52_week_high and 52_week_low are the greatest high and the least low
\* of the whole series below 252 bars, and of the last 252 bars otherwise.
C3_YearRange ==
    (Calculated /\ Len(data) > 0) =>
        LET W == WindowStart(data)..Len(data)
        IN  /\ Has(additional_metrics, "52_week_high")
            /\ Has(additional_metrics, "52_week_low")
            /\ additional_metrics["52_week_high"] = F(SetMax({data[i].High : i \in W}))
            /\ additional_metrics["52_week_low"] = F(SetMin({data[i].Low : i \in W}))

\* a series of more than 252 bars whose first bar is higher than every bar
\* of the last 252 has been rated
C3_Witness ==
    /\ Calculated
    /\ Len(data) > 252
    /\ Has(additional_metrics, "52_week_high")
    /\ FLt(additional_metrics["52_week_high"], F(data[1].High))

\* C4 as stated: 52_week_low <= 52_week_high for every non-empty series.
C4_LowBelowHigh ==
    (Calculated /\ Len(data) > 0) =>
        FLeq(additional_metrics["52_week_low"], additional_metrics["52_week_high"])

\* C4 amended: 52_week_low <= 52_week_high for every non-empty series whose
\* bars each have low <= high.
C4_LowBelowHighOfSaneBars ==
    (Calculated /\ Len(data) > 0 /\ \A i \in 1..Len(data) : data[i].Low <= data[i].High) =>
        FLeq(additional_metrics["52_week_low"], additional_metrics["52_week_high"])

\* a series of at least 252 bars, each with low < high, has been rated
C4_Witness ==
    /\ Calculated
    /\ Len(data) >= 252
    /\ \A i \in 1..Len(data) : data[i].Low < data[i].High
    /\ FLt(additional_metrics["52_week_low"], additional_metrics["52_week_high"])

\* C5: an 'rsi' that is present lies in [0, 100].
C5_RsiInRange ==
    (Calculated /\ Has(additional_metrics, "rsi")) =>
        /\ FLeq(F(0), additional_metrics["rsi"])
        /\ FLeq(additional_metrics["rsi"], F(100))

\* a series whose last 14 bars only lose has been rated, at the lower end
C5_Witness ==
    /\ Calculated
    /\ Len(data) >= 14
    /\ TrailingGain(data) = 0
    /\ TrailingLoss(data) > 0
    /\ additional_metrics["rsi"] = F(0)

Example == <<10, 11, 12, 13, 14, 15, 16, 17, 18, 19, 20, 19, 18, 17>>

Changes(d) == {i \in 1..Len(d) : ~IsNaN(Delta(d)[i])}
Gains(d) == {i \in 1..Len(d) : FLt(F(0), WherePositive(Delta(d))[i])}
Losses(d) == {i \in 1..Len(d) : FLt(F(0), Negated(WhereNegative(Delta(d)))[i])}

\* C9 as stated: the example series has 13 changes, 9 of them gains and 4
\* losses, and the averages are the means of the last 14 gain and loss values.
C9_ExampleNineFour ==
    (Calculated /\ Closes(data) = Example) =>
        /\ Cardinality(Changes(data)) = 13
        /\ Cardinality(Gains(data)) = 9
        /\ Cardinality(Losses(data)) = 4
        /\ AvgGain(data) = Norm(TrailingGain(data), 14)
        /\ AvgLoss(data) = Norm(TrailingLoss(data), 14)

\* C9 amended: the example series has 13 changes, 10 of them gains and 3
\* losses; the averages are the means of the last 14 gain and loss values, the
\* first bar counting as 0 in both (10/14 and 3/14), and the rsi is 1000/13.
C9_ExampleTenThree ==
    (Calculated /\ Closes(data) = Example) =>
        /\ Cardinality(Changes(data)) = 13
        /\ Cardinality(Gains(data)) = 10
        /\ Cardinality(Losses(data)) = 3
        /\ AvgGain(data) = Norm(10, 14)
        /\ AvgLoss(data) = Norm(3, 14)
        /\ additional_metrics["rsi"] = Norm(1000, 13)

\* the example series has been rated
C9_Witness ==
    /\ Calculated
    /\ Closes(data) = Example
    /\ Has(additional_metrics, "rsi")
    /\ ~Has(additional_metrics, "ma_20")

----------------------------------------------------------------------------
(* Properties of the refresh cycle                                          *)

\* the last n elements of s, in order
LastN(s, n) ==
    LET m == IF Len(s) < n THEN Len(s) ELSE n
    IN  [i \in 1..m |-> s[Len(s) - m + i]]

\* a step that is one run of the script for a selected symbol
IsCycle == run'.cycles = run.cycles + 1 /\ pc' # "welcome"

\* C6: at the end of every cycle the buffer holds at most 100 samples, and
\* they are the most recently appended ones, in the order of their appends.
C6_BufferIsLastHundred ==
    /\ Len(price_history) <= 100
    /\ price_history = LastN(appended, 100)

\* more than 100 samples were appended, with a run that appended none in
\* between, and the oldest were evicted
C6_Witness ==
    /\ Len(appended) > 100
    /\ Len(price_history) = 100
    /\ faults > 0
    /\ Len(appended) < run.cycles
    /\ price_history[1] # appended[1]

\* C7 as stated: the number of appends equals the number of cycles run.
C7_OneAppendPerCycle == Len(appended) = run.cycles

\* C7 amended: a cycle appends exactly one sample (the quote, stamped with
\* the cycle's time) when get_live_stock_data gave no error and a non-empty
\* series and get_realtime_price gave a price that is neither None nor 0, and
\* appends nothing otherwise.
C7_OneAppendPerPricedCycle ==
    [][IsCycle =>
          LET priced == /\ ~Truthy(run'.error)
                        /\ ~run'.data_none
                        /\ data' # <<>>
                        /\ ~run'.current_price.none
                        /\ run'.current_price.price # 0
          IN  IF priced
              THEN /\ appended' =
                          Append(appended, [time |-> now', price |-> run'.current_price.price])
                   /\ price_history' = LastN(appended', 100)
              ELSE /\ appended' = appended
                   /\ price_history' = price_history]_vars

\* a cycle got data and rendered but appended nothing, after cycles that did
C7_Witness ==
    /\ pc = "rendered"
    /\ ~PriceTruthy(run.current_price)
    /\ Len(appended) > 0
    /\ Len(appended) < run.cycles

\* C8 as stated: an auto-refresh cycle, whatever its interval, renders an
\* Indicator Set computed in that very cycle.
C8_RecomputedEveryCycle ==
    (pc = "rendered" /\ run.trigger = "auto") => run.computed_in = run.cycles

\* C8 amended: the Indicator Set a cycle renders was computed, from the
\* series fetched with it, less than 30 s before for the same symbol and
\* period; it is computed in the cycle itself when the auto-refresh started
\* the cycle after an interval of 30 to 300 s.
C8_RecomputedUnlessCached ==
    pc = "rendered" =>
        /\ additional_metrics = calculate_technical_indicators(data)
        /\ run.selection \in DOMAIN cache
        /\ cache[run.selection].at = run.computed_at
        /\ now - run.computed_at < 30
        /\ (run.trigger = "auto" /\ run.refresh_interval >= 30) =>
               run.computed_in = run.cycles

\* the auto-refresh, 30 s after a cycle that had computed a set for the same
\* selection, computed a new one from a different series
C8_Witness ==
    /\ pc = "rendered"
    /\ run.trigger = "auto"
    /\ run.refresh_interval = 30
    /\ run.cycles = 3
    /\ run.computed_in = 3
    /\ Len(price_history) = 3
    /\ Len(data) = 2

\* C10: a cycle in which get_live_stock_data gave an error, or no series or
\* an empty one, leaves price_history and last_update as they were.
C10_FailedCycleFrame ==
    [][(IsCycle /\ (Truthy(run'.error) \/ run'.data_none \/ data' = <<>>)) =>
          (price_history' = price_history /\ last_update' = last_update)]_vars

\* a cycle ended in the error or no-data branch although the quote was good,
\* after cycles that had appended and rendered
C10_Witness ==
    /\ pc \in {"error", "nodata"}
    /\ PriceTruthy(run.current_price)
    /\ price_history # <<>>
    /\ last_update > 0
    /\ last_update < now

====
